---- MODULE Spec2Model ----
(***************************************************************************)
(* Universal Car Scraper API (src/main.py): the job registry, the          *)
(* background task run_scraping_job, the scraper it drives                 *)
(* (UniversalCarScraper.scrape_website, get_car_links, extract_car_data),  *)
(* the completion webhook, and the API handlers that change state.         *)
(*                                                                         *)
(* One action per await point of the task: between two awaits an asyncio   *)
(* coroutine runs atomically, so the code from one await to the next is    *)
(* one step.  The browser, the target site, the file system and the        *)
(* webhook receiver are the environment: each call into them either        *)
(* returns or raises, chosen nondeterministically.                         *)
(*                                                                         *)
(* A listing URL is represented by its position in discovery order         *)
(* (1..N); the record extracted from a listing is represented by the URL   *)
(* it came from.                                                           *)
(***************************************************************************)
EXTENDS Integers, Sequences, FiniteSets, TLC

\* ------------------------------------------------------------------ bounds

\* The most links the index page yields (pre-truncation).
MaxLinks == 3
\* The last second of the wall clock that names result files.
MaxClock == 1

\* ------------------------------------------------------- program constants

\* ScrapeRequest.max_pages default.
DefaultMaxPages == 50
\* ScrapeRequest.delay_between_requests default.
DefaultDelay == 2

\* ------------------------------------------------------------------ inputs

\* uuid4 values, in the order they are handed out.
JobOrder == <<"j1", "j2">>
JobIds == {JobOrder[k] : k \in 1..Len(JobOrder)}

\* Tenant labels a request may carry.
\* client_name when the n8n trigger's body has none.
N8nClient == "n8n_trigger"
ClientNames == {"acme", N8nClient}
\* max_pages values a request may carry.
MaxPagesValues == {0, 1, DefaultMaxPages}
\* Numeric delay_between_requests values (seconds).
Delays == {0, DefaultDelay}
\* What the n8n trigger passes on when the caller's "delay" is not a number.
BadDelay == -1

\* Python's None, for Optional[str] fields.
None == "None"
\* ScrapeJob.result_file = None.
NoFile == [client |-> None, ts |-> 0]

\* str(e) of the exceptions the environment raises.  An exception raised
\* without arguments (NotImplementedError() from the event loop's subprocess
\* support when the browser driver is spawned) has the empty string.
AcquireErrors == {"", "BrowserType.launch: Executable doesn't exist"}
SleepError == "'<=' not supported between instances of 'str' and 'int'"
PersistError == "[Errno 2] No such file or directory"

VARIABLES
    issued,        \* job ids handed out so far
    jobs_storage,  \* keys of the registry dict
    job,           \* the ScrapeJob objects, by id
    pc,            \* position of each background task
    config,        \* the task's config dict
    scraper,       \* the task's UniversalCarScraper: job_stats and cars_data
    car_links,     \* scrape_website's local car_links
    i,             \* scrape_website's loop index: links processed so far
    exc,           \* the exception in flight while the finally block runs
    browser,       \* the task's browser: "none", "open", "closed"
    files,         \* the data/ directory: file name -> document
    now,           \* wall clock, in whole seconds
    visited,       \* listing URLs the page navigated to, in order
    raised,        \* listing URLs on which extraction raised
    slept,         \* asyncio.sleep calls that returned, and their total length
    webhooks,      \* payloads POSTed to the notification target
    call,          \* a function of the scraper called on its own: its arguments
    ret            \* what that call returned

\* The call under study and its result.
fnVars == <<call, ret>>

vars == <<issued, jobs_storage, job, pc, config, scraper, car_links, i, exc,
          browser, files, now, visited, raised, slept, webhooks, call, ret>>

\* ----------------------------------------------------------------- helpers

Range(s) == {s[k] : k \in 1..Len(s)}

Min(a, b) == IF a < b THEN a ELSE b
Max(a, b) == IF a > b THEN a ELSE b

\* Python's seq[:m]: the first m items, counted from the end for m < 0.
PySlice(s, m) ==
    LET stop == IF m < 0 THEN Max(Len(s) + m, 0) ELSE Min(m, Len(s))
    IN  SubSeq(s, 1, stop)

\* ScrapeJob as constructed by start_scrape / n8n_webhook_trigger.
NewJob(c) ==
    [status |-> "pending", client_name |-> c, total_found |-> 0,
     successfully_scraped |-> 0, errors |-> 0, result_file |-> NoFile,
     error_message |-> None]

\* An id no request has created (yet).
NoJob == [NewJob(None) EXCEPT !.status = "absent"]

\* UniversalCarScraper.__init__: cars_data and job_stats.
NewScraper ==
    [total_found |-> 0, successfully_scraped |-> 0, errors |-> 0,
     cars_data |-> <<>>]

\* The config dict of a task; NoConfig before the task exists and after it ends.
NoConfig == [max_pages |-> 0, delay_between_requests |-> 0,
             webhook_callback |-> FALSE]

NoSleep == [calls |-> 0, total |-> 0]

TypeOK ==
    /\ issued \subseteq JobIds
    /\ jobs_storage \subseteq issued
    /\ \A j \in JobIds :
        /\ job[j].status \in {"absent", "pending", "running", "completed", "failed"}
        /\ pc[j] \in {"none", "scheduled", "launch", "context", "links",
                      "extract", "sleep", "exit", "webhook", "return",
                      "ended", "crashed"}
        /\ browser[j] \in {"none", "open", "closed"}
        /\ i[j] \in 0..Len(car_links[j])
    /\ now \in 0..MaxClock

\* No function is called on its own / no call has returned.
NoCall == [fn |-> "none"]
NoReturn == [fn |-> "none"]

\* The process after start-up: an empty registry, no task.
Idle ==
    /\ issued = {}
    /\ jobs_storage = {}
    /\ job = [j \in JobIds |-> NoJob]
    /\ pc = [j \in JobIds |-> "none"]
    /\ config = [j \in JobIds |-> NoConfig]
    /\ scraper = [j \in JobIds |-> NewScraper]
    /\ car_links = [j \in JobIds |-> <<>>]
    /\ i = [j \in JobIds |-> 0]
    /\ exc = [j \in JobIds |-> None]
    /\ browser = [j \in JobIds |-> "none"]
    /\ files = [f \in {} |-> 0]
    /\ now = 0
    /\ visited = [j \in JobIds |-> <<>>]
    /\ raised = [j \in JobIds |-> {}]
    /\ slept = [j \in JobIds |-> NoSleep]
    /\ webhooks = [j \in JobIds |-> <<>>]

Init ==
    /\ Idle
    /\ call = NoCall
    /\ ret = NoReturn

\* ------------------------------------------------------------ job creation

\* job_id = str(uuid.uuid4()): an id never handed out before.
NextUuid == JobOrder[Cardinality(issued) + 1]

\* The state a new job and its not yet started background task are given.
Submit(j, c, cfg) ==
    /\ issued' = issued \cup {j}
    /\ jobs_storage' = jobs_storage \cup {j}
    /\ job' = [job EXCEPT ![j] = NewJob(c)]
    /\ config' = [config EXCEPT ![j] = cfg]
    /\ pc' = [pc EXCEPT ![j] = "scheduled"]
    /\ UNCHANGED <<scraper, car_links, i, exc, browser, files, now, visited,
                   raised, slept, webhooks>>
    /\ UNCHANGED fnVars

\* POST /scrape: pydantic has validated max_pages and delay_between_requests
\* as integers; webhook_callback is optional.
start_scrape(j) ==
    /\ Cardinality(issued) < Len(JobOrder)
    /\ j = NextUuid
    /\ \E c \in ClientNames, mp \in MaxPagesValues, d \in Delays,
          wh \in BOOLEAN :
        Submit(j, c,
               [max_pages |-> mp, delay_between_requests |-> d,
                webhook_callback |-> wh])

\* POST /webhook/n8n: "delay" is passed on as received (BadDelay: not a
\* number), and the callback URL is always set.
n8n_webhook_trigger(j) ==
    /\ Cardinality(issued) < Len(JobOrder)
    /\ j = NextUuid
    /\ \E c \in ClientNames, mp \in MaxPagesValues,
          d \in Delays \cup {BadDelay} :
        Submit(j, c,
               [max_pages |-> mp, delay_between_requests |-> d,
                webhook_callback |-> TRUE])

\* POST /webhook/n8n with "url" and "max_pages": 2 in the body: the trigger's
\* defaults for the rest.
n8n_webhook_trigger_defaults(j) ==
    /\ Cardinality(issued) < Len(JobOrder)
    /\ j = NextUuid
    /\ Submit(j, N8nClient,
              [max_pages |-> 2,
               delay_between_requests |-> DefaultDelay,
               webhook_callback |-> TRUE])

\* --------------------------------------------------------- run_scraping_job

\* Failed without the status assignment: the job stays running.
FailedKeepsStatus(jb, msg) == [jb EXCEPT !.error_message = msg]

\* except Exception as e: status, error_message (and completed_at).
Failed(jb, msg) == [jb EXCEPT !.status = "failed", !.error_message = msg]

\* The except branch taken by task j with str(e) = msg; the task then returns.
Fail(j, msg) ==
    /\ job' = [job EXCEPT ![j] = Failed(job[j], msg)]
    /\ pc' = [pc EXCEPT ![j] = "return"]

\* The task starts: job lookup (KeyError, outside the try, when the job was
\* deleted meanwhile), status running, the scraper is built and
\* scrape_website runs up to its first await.
RunBegin(j) ==
    /\ pc[j] = "scheduled"
    /\ IF j \in jobs_storage
       THEN /\ job' = [job EXCEPT ![j].status = "running"]
            /\ scraper' = [scraper EXCEPT ![j] = NewScraper]
            /\ pc' = [pc EXCEPT ![j] = "launch"]
       ELSE /\ pc' = [pc EXCEPT ![j] = "crashed"]
            /\ UNCHANGED <<job, scraper>>
    /\ UNCHANGED <<issued, jobs_storage, config, car_links, i, exc, browser,
                   files, now, visited, raised, slept, webhooks>>
    /\ UNCHANGED fnVars

\* async_playwright() and chromium.launch: return a browser, or raise.
LaunchBrowser(j) ==
    /\ pc[j] = "launch"
    /\ \/ /\ browser' = [browser EXCEPT ![j] = "open"]
          /\ pc' = [pc EXCEPT ![j] = "context"]
          /\ UNCHANGED job
       \/ /\ \E msg \in AcquireErrors : Fail(j, msg)
          /\ UNCHANGED browser
    /\ UNCHANGED <<issued, jobs_storage, config, scraper, car_links, i, exc,
                   files, now, visited, raised, slept, webhooks>>
    /\ UNCHANGED fnVars

\* browser.new_context and context.new_page: both precede the try whose
\* finally closes the browser, so a raise here leaves the browser as it is.
NewContextPage(j) ==
    /\ pc[j] = "context"
    /\ \/ /\ pc' = [pc EXCEPT ![j] = "links"]
          /\ UNCHANGED job
       \/ \E msg \in AcquireErrors : Fail(j, msg)
    /\ UNCHANGED <<issued, jobs_storage, config, scraper, car_links, i, exc,
                   browser, files, now, visited, raised, slept, webhooks>>
    /\ UNCHANGED fnVars

\* ------------------------------------------------------------ link discovery

\* The links the in-page script returns: n distinct URLs, in discovery order.
Discovered(n) == [k \in 1..n |-> k]

\* get_car_links that raises when the page holds no listing link.
get_car_links_empty_is_error(sc, cfg, n, navOk) ==
    IF navOk
    THEN [links |-> PySlice(Discovered(n), cfg.max_pages),
          scraper |-> [sc EXCEPT !.total_found = n],
          error |-> IF n = 0 THEN "Nenhum link encontrado!" ELSE None]
    ELSE [links |-> <<>>, scraper |-> sc, error |-> None]

\* get_car_links without its try/except: the navigation error leaves it.
get_car_links_unguarded(sc, cfg, n, navOk) ==
    IF navOk
    THEN [links |-> PySlice(Discovered(n), cfg.max_pages),
          scraper |-> [sc EXCEPT !.total_found = n],
          error |-> None]
    ELSE [links |-> <<>>, scraper |-> sc, error |-> "Timeout 30000ms exceeded"]

\* get_car_links on a page where navigation and evaluation succeed (navOk)
\* and the script finds n links, or where one of them raises.  The except
\* clause logs and returns [], so no error leaves the method.
get_car_links(sc, cfg, n, navOk) ==
    IF navOk
    THEN [links |-> PySlice(Discovered(n), cfg.max_pages),
          scraper |-> [sc EXCEPT !.total_found = n],
          error |-> None]
    ELSE [links |-> <<>>, scraper |-> sc, error |-> None]

\* if not car_links: return []
NoLinks(links) == Len(links) = 0

\* await self.get_car_links(page, url), then the test for an empty list.
GetCarLinks(j) ==
    /\ pc[j] = "links"
    /\ \E n \in 0..MaxLinks, navOk \in BOOLEAN :
        LET r == get_car_links(scraper[j], config[j], n, navOk) IN
        /\ scraper' = [scraper EXCEPT ![j] = r.scraper]
        /\ car_links' = [car_links EXCEPT ![j] = r.links]
        /\ exc' = [exc EXCEPT ![j] = r.error]
        /\ pc' = [pc EXCEPT ![j] =
                    IF r.error # None \/ NoLinks(r.links)
                    THEN "exit" ELSE "extract"]
    /\ i' = [i EXCEPT ![j] = 0]
    /\ UNCHANGED <<issued, jobs_storage, job, config, browser, files, now,
                   visited, raised, slept, webhooks>>
    /\ UNCHANGED fnVars

\* ------------------------------------------------------- per-listing loop

\* extract_car_data whose except clause does not count the error.
extract_car_data_uncounted(sc, url, ok) ==
    IF ok
    THEN [scraper |-> [sc EXCEPT !.successfully_scraped = @ + 1],
          car_data |-> url]
    ELSE [scraper |-> sc, car_data |-> 0]

\* extract_car_data: the record (here: its URL) and one more success, or
\* None (here: 0) and one more error when navigation or evaluation raises.
extract_car_data(sc, url, ok) ==
    IF ok
    THEN [scraper |-> [sc EXCEPT !.successfully_scraped = @ + 1],
          car_data |-> url]
    ELSE [scraper |-> [sc EXCEPT !.errors = @ + 1], car_data |-> 0]

\* The append without its test: None is recorded too.
CollectAlways(sc, car_data) == [sc EXCEPT !.cars_data = Append(@, car_data)]

\* if car_data: self.cars_data.append(car_data)
Collect(sc, car_data) ==
    IF car_data # 0 THEN [sc EXCEPT !.cars_data = Append(@, car_data)] ELSE sc

\* The delay test off by one: no delay before the last link.
SleepDueBeforeLast(idx, n) == idx < n - 1

\* if i < len(car_links): a delay follows the i-th link.
SleepDue(idx, n) == idx < n

\* One iteration of the loop, up to the next await.
ExtractCarData(j) ==
    /\ pc[j] = "extract"
    /\ LET url == car_links[j][i[j] + 1] IN
       \E ok \in BOOLEAN :
        LET r == extract_car_data(scraper[j], url, ok) IN
        /\ scraper' = [scraper EXCEPT ![j] = Collect(r.scraper, r.car_data)]
        /\ visited' = [visited EXCEPT ![j] = Append(@, url)]
        /\ raised' = [raised EXCEPT ![j] = IF ok THEN @ ELSE @ \cup {url}]
    /\ i' = [i EXCEPT ![j] = @ + 1]
    /\ pc' = [pc EXCEPT ![j] =
                IF SleepDue(i[j] + 1, Len(car_links[j])) THEN "sleep"
                ELSE IF i[j] + 1 < Len(car_links[j]) THEN "extract"
                ELSE "exit"]
    /\ UNCHANGED <<issued, jobs_storage, job, config, car_links, exc, browser,
                   files, now, slept, webhooks>>
    /\ UNCHANGED fnVars

\* asyncio.sleep(delay) raises TypeError when delay is not a number.
SleepRaises(d) == d = BadDelay

\* await asyncio.sleep(self.config.get('delay_between_requests', 2))
Sleep(j) ==
    /\ pc[j] = "sleep"
    /\ LET d == config[j].delay_between_requests IN
       IF SleepRaises(d)
       THEN /\ exc' = [exc EXCEPT ![j] = SleepError]
            /\ pc' = [pc EXCEPT ![j] = "exit"]
            /\ UNCHANGED slept
       ELSE /\ slept' = [slept EXCEPT ![j] =
                           [calls |-> @.calls + 1, total |-> @.total + d]]
            /\ pc' = [pc EXCEPT ![j] = "extract"]
            /\ UNCHANGED exc
    /\ UNCHANGED <<issued, jobs_storage, job, config, scraper, car_links, i,
                   browser, files, now, visited, raised, webhooks>>
    /\ UNCHANGED fnVars

\* --------------------------------------------------- result and completion

\* What scrape_website returns to run_scraping_job: [] on the early return,
\* self.cars_data at the end of the loop.
ReturnedCars(sc, links) == IF NoLinks(links) THEN <<>> ELSE sc.cars_data

\* f'data/scrape_{job.client_name}_{timestamp}.json', timestamp to the second.
ResultFile(client, t) == [client |-> client, ts |-> t]

\* result['stats'], as far as it is counted.
Stats(sc) ==
    [total_found |-> sc.total_found,
     successfully_scraped |-> sc.successfully_scraped,
     errors |-> sc.errors]

\* The document json.dump writes.
ResultDoc(j, sc, cars) == [job_id |-> j, stats |-> Stats(sc), cars |-> cars]

\* The completion that does not publish the result file.
CompletedWithoutFile(jb, sc, file) ==
    [jb EXCEPT !.status = "completed",
               !.total_found = sc.total_found,
               !.successfully_scraped = sc.successfully_scraped,
               !.errors = sc.errors]

\* The completion that leaves job.errors as it was.
CompletedWithoutErrors(jb, sc, file) ==
    [jb EXCEPT !.status = "completed",
               !.total_found = sc.total_found,
               !.successfully_scraped = sc.successfully_scraped,
               !.result_file = file]

\* job.status = "completed" and the fields set with it.
Completed(jb, sc, file) ==
    [jb EXCEPT !.status = "completed",
               !.total_found = sc.total_found,
               !.successfully_scraped = sc.successfully_scraped,
               !.errors = sc.errors,
               !.result_file = file]

\* open(result_file, 'w'): creates the file or replaces its content.
WriteFile(fs, name, doc) == (name :> doc) @@ fs

\* Path(...).unlink(), when the file exists.
Unlink(fs, name) == [f \in DOMAIN fs \ {name} |-> fs[f]]

\* The notification sent whether or not a target is configured.
NotifyAlways(cfg) == TRUE

\* if config.get('webhook_callback'):
NotifyConfigured(cfg) == cfg.webhook_callback

\* The finally block of scrape_website (browser.close()), the exit of the
\* playwright context, and run_scraping_job from there to its next await:
\* an exception in flight reaches the except branch; otherwise the result
\* file is written (which may raise) and the job is completed.
ExitAndFinish(j) ==
    /\ pc[j] = "exit"
    /\ browser' = [browser EXCEPT ![j] = "closed"]
    /\ IF exc[j] # None
       THEN /\ Fail(j, exc[j])
            /\ UNCHANGED files
       ELSE LET cars == ReturnedCars(scraper[j], car_links[j])
                name == ResultFile(job[j].client_name, now)
            IN  \/ /\ files' = WriteFile(files, name,
                                         ResultDoc(j, scraper[j], cars))
                   /\ job' = [job EXCEPT ![j] =
                                Completed(job[j], scraper[j], name)]
                   /\ pc' = [pc EXCEPT ![j] =
                               IF NotifyConfigured(config[j])
                               THEN "webhook" ELSE "return"]
                \/ /\ Fail(j, PersistError)
                   /\ UNCHANGED files
    /\ UNCHANGED <<issued, jobs_storage, config, scraper, car_links, i, exc,
                   now, visited, raised, slept, webhooks>>
    /\ UNCHANGED fnVars

\* The body POSTed to the notification target, and whether the POST returned.
WebhookPayload(j, sc, cars, ok) ==
    [job_id |-> j, status |-> "completed", total_cars |-> Len(cars),
     stats |-> Stats(sc), delivered |-> ok]

\* call_webhook without its try/except: the POST's exception reaches
\* run_scraping_job's except branch.
AfterWebhookUnguarded(jb, ok) ==
    IF ok THEN jb ELSE Failed(jb, "All connection attempts failed")

\* The job after await call_webhook(...): call_webhook catches and logs
\* whatever the POST raises, so the job is as it was.
AfterWebhook(jb, ok) == jb

\* await call_webhook(config['webhook_callback'], {...}): one POST, which
\* returns or raises.
CallWebhook(j) ==
    /\ pc[j] = "webhook"
    /\ \E ok \in BOOLEAN :
        /\ webhooks' = [webhooks EXCEPT ![j] =
              Append(@, WebhookPayload(j, scraper[j],
                            ReturnedCars(scraper[j], car_links[j]), ok))]
        /\ job' = [job EXCEPT ![j] = AfterWebhook(job[j], ok)]
    /\ pc' = [pc EXCEPT ![j] = "return"]
    /\ UNCHANGED <<issued, jobs_storage, config, scraper, car_links, i, exc,
                   browser, files, now, visited, raised, slept>>
    /\ UNCHANGED fnVars

\* run_scraping_job returns: the task is over and its locals (config, the
\* scraper, the page and what it recorded) are gone.
TaskReturn(j) ==
    /\ pc[j] = "return"
    /\ pc' = [pc EXCEPT ![j] = "ended"]
    /\ config' = [config EXCEPT ![j] = NoConfig]
    /\ scraper' = [scraper EXCEPT ![j] = NewScraper]
    /\ car_links' = [car_links EXCEPT ![j] = <<>>]
    /\ i' = [i EXCEPT ![j] = 0]
    /\ exc' = [exc EXCEPT ![j] = None]
    /\ visited' = [visited EXCEPT ![j] = <<>>]
    /\ raised' = [raised EXCEPT ![j] = {}]
    /\ slept' = [slept EXCEPT ![j] = NoSleep]
    /\ UNCHANGED <<issued, jobs_storage, job, browser, files, now, webhooks>>
    /\ UNCHANGED fnVars

\* One step of job j's background task.
TaskStep(j) ==
    \/ RunBegin(j)
    \/ LaunchBrowser(j)
    \/ NewContextPage(j)
    \/ GetCarLinks(j)
    \/ ExtractCarData(j)
    \/ Sleep(j)
    \/ ExitAndFinish(j)
    \/ CallWebhook(j)
    \/ TaskReturn(j)

\* ------------------------------------------------------------ other handlers

\* round(n / d, 0) as Python rounds: to the nearest integer, a tie to the
\* even one.
RoundDiv(n, d) ==
    LET q == n \div d
        r == n % d
    IN  IF 2 * r < d THEN q
        ELSE IF 2 * r > d THEN q + 1
        ELSE IF q % 2 = 0 THEN q ELSE q + 1

\* "success_rate" of the status query, in hundredths of a percent:
\* round((successfully_scraped / max(total_found, 1)) * 100, 2) if
\* total_found > 0 else 0.
success_rate(jb) ==
    IF jb.total_found > 0
    THEN RoundDiv(jb.successfully_scraped * 10000, Max(jb.total_found, 1))
    ELSE 0

\* GET /job/{job_id}: 404 for an id that is not in the registry, else the
\* job's status, counters, derived success rate and download_available.
get_job_status(j) ==
    IF j \notin jobs_storage
    THEN [code |-> 404, status |-> "absent", total_found |-> 0,
          successfully_scraped |-> 0, errors |-> 0, success_rate |-> 0,
          download_available |-> FALSE]
    ELSE [code |-> 200, status |-> job[j].status,
          total_found |-> job[j].total_found,
          successfully_scraped |-> job[j].successfully_scraped,
          errors |-> job[j].errors,
          success_rate |-> success_rate(job[j]),
          download_available |-> job[j].result_file # NoFile]

\* GET /download/{job_id}: the status code and, when refused, the reason.
download_results(j) ==
    IF j \notin jobs_storage
    THEN [code |-> 404, detail |-> "Job não encontrado"]
    ELSE IF job[j].status # "completed" \/ job[j].result_file = NoFile
    THEN [code |-> 400, detail |-> "Job não concluído ou sem resultados"]
    ELSE IF job[j].result_file \notin DOMAIN files
    THEN [code |-> 404, detail |-> "Arquivo de resultados não encontrado"]
    ELSE [code |-> 200, detail |-> "FileResponse"]

\* DELETE /job/{job_id}: removes the result file, if any, and the registry
\* entry.  A running task keeps its reference to the ScrapeJob object.
delete_job(j) ==
    /\ j \in jobs_storage
    /\ files' = IF job[j].result_file # NoFile
                THEN Unlink(files, job[j].result_file) ELSE files
    /\ jobs_storage' = jobs_storage \ {j}
    /\ UNCHANGED <<issued, job, pc, config, scraper, car_links, i, exc,
                   browser, now, visited, raised, slept, webhooks>>
    /\ UNCHANGED fnVars

\* A second passes on the clock datetime.now() reads.
Tick ==
    /\ now < MaxClock
    /\ now' = now + 1
    /\ UNCHANGED <<issued, jobs_storage, job, pc, config, scraper, car_links,
                   i, exc, browser, files, visited, raised, slept, webhooks>>
    /\ UNCHANGED fnVars

\* One request is served, with any body; its job runs among the other
\* handlers.
SoloJobs == {JobOrder[1]}

Next ==
    \/ \E j \in SoloJobs : start_scrape(j)
    \/ \E j \in SoloJobs : n8n_webhook_trigger(j)
    \/ \E j \in SoloJobs : TaskStep(j)
    \/ \E j \in SoloJobs : delete_job(j)
    \/ Tick

Spec == Init /\ [][Next]_vars

\* Two n8n triggers (two pages at most, defaults otherwise) are served; their
\* jobs run concurrently.
NextPair ==
    \/ \E j \in JobIds : n8n_webhook_trigger_defaults(j)
    \/ \E j \in JobIds : TaskStep(j)
    \/ \E j \in JobIds : delete_job(j)
    \/ Tick

PairSpec == Init /\ [][NextPair]_vars

\* The event loop runs every task that is ready, and every call a task awaits
\* returns or raises: a task that can take a step eventually takes one.
FairSpec == Spec /\ \A j \in SoloJobs : WF_vars(TaskStep(j))

\* ------------------------------------------- functions called on their own

\* The longest selector list of a field in one source of selectors.
MaxSelectors == 1

\* Field keys and CSS selectors of the selector dictionaries.
FieldKeys == {"car_links", "dealer_info"}
Selectors == {".item-carro a", ".anuncio-item a"}

\* The lists of at most n elements of S.
SeqsUpTo(S, n) == UNION {[1..k -> S] : k \in 0..n}

\* The dictionaries from some of the keys K to the values V.
Dicts(K, V) == UNION {[D -> V] : D \in SUBSET K}

\* dict.get(k, []) on a selector dictionary.
Lookup(d, k) == IF k \in DOMAIN d THEN d[k] ELSE <<>>

\* The merge in which a custom list replaces the built-in chain of its key.
get_universal_selectors_replacing(site, generic, custom) ==
    LET merged == [k \in DOMAIN generic \cup DOMAIN site |->
                     IF k \in DOMAIN site
                     THEN IF k \in DOMAIN generic
                          THEN site[k] \o generic[k] ELSE site[k]
                     ELSE generic[k]]
    IN  IF DOMAIN custom # {}
        THEN [k \in DOMAIN merged \cup DOMAIN custom |->
                IF k \in DOMAIN custom THEN custom[k] ELSE merged[k]]
        ELSE merged

\* get_universal_selectors: site = get_autocarro_selectors(), generic = the
\* universal_selectors literal, custom = config['custom_selectors'] (an empty
\* or missing dict is falsy and skips the second loop).
get_universal_selectors(site, generic, custom) ==
    LET merged == [k \in DOMAIN generic \cup DOMAIN site |->
                     IF k \in DOMAIN site
                     THEN IF k \in DOMAIN generic
                          THEN site[k] \o generic[k] ELSE site[k]
                     ELSE generic[k]]
    IN  IF DOMAIN custom # {}
        THEN [k \in DOMAIN merged \cup DOMAIN custom |->
                IF k \in DOMAIN custom
                THEN IF k \in DOMAIN merged
                     THEN merged[k] \o custom[k] ELSE custom[k]
                ELSE merged[k]]
        ELSE merged

\* Every triple of selector dictionaries.
SelectorCalls ==
    LET D == Dicts(FieldKeys, SeqsUpTo(Selectors, MaxSelectors))
    IN  [fn : {"get_universal_selectors"}, site : D, generic : D, custom : D]

\* self.get_universal_selectors()
CallGetUniversalSelectors ==
    /\ call.fn = "get_universal_selectors"
    /\ ret = NoReturn
    /\ ret' = [fn |-> call.fn,
               selectors |-> get_universal_selectors(call.site, call.generic,
                                                     call.custom)]
    /\ UNCHANGED <<issued, jobs_storage, job, pc, config, scraper, car_links,
                   i, exc, browser, files, now, visited, raised, slept,
                   webhooks, call>>

\* max_pages as a caller sends it: any integer.
AnyMaxPages == {-2, -1, 0, 1, 2, DefaultMaxPages}

\* An index page with n links in its DOM, any max_pages, and a navigation
\* that returns or times out.
LinkCalls ==
    [fn : {"get_car_links"}, n : 0..MaxLinks, max_pages : AnyMaxPages,
     navOk : BOOLEAN]

\* await scraper.get_car_links(page, url) on a fresh scraper.
CallGetCarLinks ==
    /\ call.fn = "get_car_links"
    /\ ret = NoReturn
    /\ LET r == get_car_links(NewScraper,
                              [NoConfig EXCEPT !.max_pages = call.max_pages],
                              call.n, call.navOk)
       IN  ret' = [fn |-> call.fn, links |-> r.links,
                   total_found |-> r.scraper.total_found, error |-> r.error]
    /\ UNCHANGED <<issued, jobs_storage, job, pc, config, scraper, car_links,
                   i, exc, browser, files, now, visited, raised, slept,
                   webhooks, call>>

\* The most currency matches in the text of a listing page.
MaxMatches == 2

\* A match of /R\$\s*[\d.,]+/: "R$ 45.000" is [reais |-> 45000, hasCents |->
\* FALSE, cents |-> 0], "R$ 1.200,00" is [reais |-> 1200, hasCents |-> TRUE,
\* cents |-> 0].
Prices == [reais : {1200, 45000}, hasCents : BOOLEAN, cents : {0}]

\* No price: the 'N/A' getPrice returns.
NoPrice == [reais |-> 0, hasCents |-> FALSE, cents |-> 0]

\* parseFloat(m.replace(/[^\d]/g, '')): the digits of the match read as one
\* number, the two digits of the cents included.
DigitsOf(m) == IF m.hasCents THEN m.reais * 100 + m.cents ELSE m.reais

\* The reduce of getPrice from the k-th match on, a being the match kept.
RECURSIVE ReducePrice(_, _, _)
ReducePrice(a, matches, k) ==
    IF k > Len(matches) THEN a
    ELSE ReducePrice(IF DigitsOf(a) > DigitsOf(matches[k])
                     THEN a ELSE matches[k],
                     matches, k + 1)

\* getPrice: marked[e] says whether the e-th price-selector element carries
\* 'R$' or '$'; matches are the currency matches of the body text, in order.
getPrice(marked, matches) ==
    IF \E e \in 1..Len(marked) : marked[e]
    THEN [source |-> "element", price |-> NoPrice]
    ELSE IF Len(matches) > 0
         THEN [source |-> "text",
               price |-> ReducePrice(matches[1], matches, 2)]
         ELSE [source |-> "none", price |-> NoPrice]

\* A listing page: its price-selector elements and its currency matches.
PriceCalls ==
    [fn : {"getPrice"}, marked : SeqsUpTo(BOOLEAN, 1),
     matches : SeqsUpTo(Prices, MaxMatches)]

\* getPrice() in the in-page script of extract_car_data.
CallGetPrice ==
    /\ call.fn = "getPrice"
    /\ ret = NoReturn
    /\ LET r == getPrice(call.marked, call.matches)
       IN  ret' = [fn |-> call.fn, source |-> r.source, price |-> r.price]
    /\ UNCHANGED <<issued, jobs_storage, job, pc, config, scraper, car_links,
                   i, exc, browser, files, now, visited, raised, slept,
                   webhooks, call>>

\* The most anchors the selector chain matches on an index page.
MaxAnchors == 2

\* if (href.includes('veiculo') || href.includes('carro') || ...
Keywords == {"veiculo", "carro", "anuncio", "automovel"}

\* Hosts and path segments of the URLs of a page.  A string is the list of
\* its pieces: "https://autocarro.com.br/anuncio/1" is
\* <<"https:", "//", "autocarro.com.br", "/", "anuncio", "/", "1">>.
Hosts == {"autocarro.com.br", "lojas.example"}
Paths == {<<"anuncio", "1">>, <<"contato">>}

\* piece.includes(kw), for the pieces above.
Includes(piece, kw) ==
    \/ piece = kw
    \/ piece = "autocarro.com.br" /\ kw = "carro"

\* The href attribute of an anchor: an absolute URL, a root-relative one
\* ("/anuncio/1"), a protocol-relative one ("//host/anuncio/1") or a
\* document-relative one ("anuncio/1").
Hrefs ==
    [kind : {"absolute", "protocol"}, host : Hosts, path : Paths]
    \cup [kind : {"root", "document"}, host : {""}, path : Paths]

\* seg1/seg2/... as a string.
RECURSIVE PathStr(_)
PathStr(path) ==
    IF Len(path) = 0 THEN <<>>
    ELSE IF Len(path) = 1 THEN <<path[1]>>
    ELSE <<path[1], "/">> \o PathStr(Tail(path))

\* link.getAttribute('href') as a string.
HrefStr(h) ==
    CASE h.kind = "absolute" ->
            <<"https:", "//", h.host, "/">> \o PathStr(h.path)
      [] h.kind = "protocol" -> <<"//", h.host, "/">> \o PathStr(h.path)
      [] h.kind = "root" -> <<"/">> \o PathStr(h.path)
      [] h.kind = "document" -> PathStr(h.path)

\* href.startsWith('/')
StartsWithSlash(str) == Len(str) > 0 /\ str[1] \in {"/", "//"}

\* if (href.startsWith('/')) href = url.protocol + '//' + url.host + href
\* for the index page https://<baseHost>/estoque.
ResolveHref(str, baseHost) ==
    IF StartsWithSlash(str) THEN <<"https:", "//", baseHost>> \o str ELSE str

\* href.includes('veiculo') || href.includes('carro') || ...
HasKeyword(str) ==
    \E k \in 1..Len(str), kw \in Keywords : Includes(str[k], kw)

\* links.add(href) on the insertion-ordered Set.
SetAdd(links, str) ==
    IF \E k \in 1..Len(links) : links[k] = str THEN links
    ELSE Append(links, str)

\* The in-page script of get_car_links from the k-th matched anchor on:
\* anchors are the hrefs the selector chain matches, selector by selector.
RECURSIVE CollectLinks(_, _, _, _)
CollectLinks(links, anchors, k, baseHost) ==
    IF k > Len(anchors) THEN links
    ELSE LET href == ResolveHref(HrefStr(anchors[k]), baseHost)
         IN  CollectLinks(IF HasKeyword(href) THEN SetAdd(links, href)
                          ELSE links,
                          anchors, k + 1, baseHost)

\* An index page https://<baseHost>/estoque and its matched anchors.
ScriptCalls ==
    [fn : {"CollectLinks"}, baseHost : Hosts,
     anchors : SeqsUpTo(Hrefs, MaxAnchors)]

\* car_links = await page.evaluate(...) in get_car_links.
CallCollectLinks ==
    /\ call.fn = "CollectLinks"
    /\ ret = NoReturn
    /\ ret' = [fn |-> call.fn,
               links |-> CollectLinks(<<>>, call.anchors, 1, call.baseHost)]
    /\ UNCHANGED <<issued, jobs_storage, job, pc, config, scraper, car_links,
                   i, exc, browser, files, now, visited, raised, slept,
                   webhooks, call>>

\* The most children (li, .item, span, p) of a features section.
MaxItems == 1

\* .slice(0, 20)
MaxOptionals == 20

\* The cleaned text of a child of a features section, with its length.
Items ==
    {[text |-> "4p", len |-> 2], [text |-> "ABS", len |-> 3],
     [text |-> "Ar condicionado digital dual zone com saida traseira",
      len |-> 49],
     [text |-> "Ar condicionado digital dual zone com saidas traseiras",
      len |-> 50]}

\* Entries of commonOptionals, in the order of the list.
Vocabulary ==
    <<[text |-> "abs", len |-> 3], [text |-> "gps", len |-> 3]>>

\* What document.querySelector(section) finds for one selector of
\* optionalSections: no element, or the first one with its children.
Sections ==
    {[present |-> FALSE, items |-> <<>>]}
    \cup [present : {TRUE}, items : SeqsUpTo(Items, MaxItems)]

\* text && text.length > 2 && text.length < 50
ItemKept(item) == item.len > 2 /\ item.len < 50

\* The texts pushed for the sections from the k-th on.
RECURSIVE SectionItems(_, _)
SectionItems(sections, k) ==
    IF k > Len(sections) THEN <<>>
    ELSE (IF sections[k].present
          THEN SelectSeq(sections[k].items, ItemKept) ELSE <<>>)
         \o SectionItems(sections, k + 1)

\* [...new Set(list)]: first occurrences, in order.
RECURSIVE Dedup(_)
Dedup(list) ==
    IF Len(list) = 0 THEN <<>>
    ELSE LET front == Dedup(SubSeq(list, 1, Len(list) - 1))
             last == list[Len(list)]
         IN  IF last \in Range(front) THEN front ELSE Append(front, last)

\* getOptionals: the section texts, or, when there is none
\* (optionals.length === 0), the vocabulary entries the body text includes
\* (inBody); deduplicated and cut to 20.
getOptionals(sections, inBody) ==
    LET fromSections == SectionItems(sections, 1)
        scan == Len(fromSections) = 0
        optionals == IF scan
                     THEN SelectSeq(Vocabulary, LAMBDA v : v.text \in inBody)
                     ELSE fromSections
    IN  [scanned |-> scan,
         optionals |-> SubSeq(Dedup(optionals), 1,
                              Min(Len(Dedup(optionals)), MaxOptionals))]

\* A listing page: what two of the section selectors find, and the
\* vocabulary entries its text includes.
OptionalsCalls ==
    [fn : {"getOptionals"}, sections : [1..2 -> Sections],
     inBody : SUBSET {Vocabulary[k].text : k \in 1..Len(Vocabulary)}]

\* getOptionals() in the in-page script of extract_car_data.
CallGetOptionals ==
    /\ call.fn = "getOptionals"
    /\ ret = NoReturn
    /\ LET r == getOptionals(call.sections, call.inBody)
       IN  ret' = [fn |-> call.fn, scanned |-> r.scanned,
                   optionals |-> r.optionals]
    /\ UNCHANGED <<issued, jobs_storage, job, pc, config, scraper, car_links,
                   i, exc, browser, files, now, visited, raised, slept,
                   webhooks, call>>

\* The most words of a listing page's text that matter to the inference.
MaxWords == 2

\* iconPatterns: the vocabulary of the keyword fields, in the order of their
\* 'values' lists.
Combustivel == <<"flex", "gasolina", "etanol", "diesel", "gnv">>
Cambio == <<"automático", "manual", "cvt">>

\* Words the 'ano' regex /(19|20)\d{2}\/(19|20)\d{2}|(19|20)\d{2}/ matches.
Anos == {"2019", "2021"}

\* document.body.textContent.toLowerCase() as the list of its words.
Words == {"diesel", "flex", "manual", "cvt"} \cup Anos

\* No value: the key is missing from specs.
NoSpec == ""

\* bodyText.includes(value)
TextIncludes(text, value) == \E k \in 1..Len(text) : text[k] = value

\* for (let value of pattern.values) if (bodyText.includes(value)) { ...;
\* break }: the first value of the list, from the k-th on, that the text
\* includes.
RECURSIVE FirstListed(_, _, _)
FirstListed(values, text, k) ==
    IF k > Len(values) THEN NoSpec
    ELSE IF TextIncludes(text, values[k]) THEN values[k]
    ELSE FirstListed(values, text, k + 1)

\* bodyText.match(pattern.regex)[0]: the leftmost match, from the k-th word
\* on.
RECURSIVE LeftmostMatch(_, _, _)
LeftmostMatch(matching, text, k) ==
    IF k > Len(text) THEN NoSpec
    ELSE IF text[k] \in matching THEN text[k]
    ELSE LeftmostMatch(matching, text, k + 1)

\* getSpecsFromIcons, for two keyword fields and one regex field.
getSpecsFromIcons(text) ==
    [combustivel |-> FirstListed(Combustivel, text, 1),
     cambio |-> FirstListed(Cambio, text, 1),
     ano |-> LeftmostMatch(Anos, text, 1)]

\* The texts of a listing page.
SpecsCalls == [fn : {"getSpecsFromIcons"}, text : SeqsUpTo(Words, MaxWords)]

\* getSpecsFromIcons() in the in-page script of extract_car_data.
CallGetSpecsFromIcons ==
    /\ call.fn = "getSpecsFromIcons"
    /\ ret = NoReturn
    /\ ret' = [fn |-> call.fn, specs |-> getSpecsFromIcons(call.text)]
    /\ UNCHANGED <<issued, jobs_storage, job, pc, config, scraper, car_links,
                   i, exc, browser, files, now, visited, raised, slept,
                   webhooks, call>>

\* The calls under study.
FnCalls ==
    SelectorCalls \cup LinkCalls \cup PriceCalls \cup ScriptCalls
    \cup OptionalsCalls \cup SpecsCalls

FnInit ==
    /\ Idle
    /\ call \in FnCalls
    /\ ret = NoReturn

FnNext ==
    \/ CallGetUniversalSelectors
    \/ CallGetCarLinks
    \/ CallGetPrice
    \/ CallCollectLinks
    \/ CallGetOptionals
    \/ CallGetSpecsFromIcons

\* One call of one function, on any of its inputs.
FnSpec == FnInit /\ [][FnNext]_vars

\* ----------------------------------------------------------------- claims

Terminal(j) == job[j].status \in {"completed", "failed"}

\* C1: a job's status only ever moves pending -> running -> completed or
\* pending -> running -> failed: a terminal status never changes (a
\* completed job never becomes failed, also when the webhook call fails),
\* pending never goes straight to a terminal status, running never goes
\* back to pending.
C1_StatusTransitions ==
    [][\A j \in JobIds :
         job'[j].status # job[j].status =>
            <<job[j].status, job'[j].status>> \in
               {<<"absent", "pending">>, <<"pending", "running">>,
                <<"running", "completed">>, <<"running", "failed">>}]_vars

\* C1: a job went pending -> running -> completed and its webhook call
\* raised.
C1_Witness ==
    \E j \in JobIds :
        /\ pc[j] = "return"
        /\ job[j].status = "completed"
        /\ Len(webhooks[j]) = 1
        /\ ~webhooks[j][1].delivered

\* C2 as stated: every job created eventually reaches completed or failed,
\* and a client polling the status query eventually sees that status.
C2_EveryJobTerminates ==
    \A j \in JobIds :
        /\ (job[j].status = "pending") ~> Terminal(j)
        /\ (job[j].status = "pending") ~> (j \in jobs_storage /\ Terminal(j))

\* C2 amended: a job whose task has started (running) eventually reaches
\* completed or failed, and a pending job eventually reaches completed or
\* failed unless delete_job removes it from the registry.
C2_TerminatesUnlessDeleted ==
    \A j \in JobIds :
        /\ (job[j].status = "running") ~> Terminal(j)
        /\ (job[j].status = "pending") ~>
              (Terminal(j) \/ j \notin jobs_storage)

\* C2: a job of the registry has reached a terminal status and its task is
\* over.
C2_Witness ==
    \E j \in jobs_storage : Terminal(j) /\ pc[j] = "ended"

\* The links of car_links on which extraction did not raise, in order.
Extracted(j) == SelectSeq(car_links[j], LAMBDA u : u \notin raised[j])

\* The loop over K >= 1 discovered links is behind task j.
AfterLoop(j) ==
    /\ pc[j] = "return"
    /\ browser[j] = "closed"
    /\ Len(car_links[j]) >= 1

\* The counters and records after every link was visited, F = raised[j].
PartialFailureTally(j) ==
    LET K == Len(car_links[j])
        F == raised[j]
    IN  /\ visited[j] = car_links[j]
        /\ scraper[j].errors = Cardinality(F)
        /\ scraper[j].successfully_scraped = K - Cardinality(F)
        /\ Len(scraper[j].cars_data) = K - Cardinality(F)
        /\ scraper[j].cars_data = Extracted(j)

\* The completed job reports the tally, and its result holds the records.
CompletedWithTally(j) ==
    /\ job[j].status = "completed"
    /\ job[j].errors = Cardinality(raised[j])
    /\ job[j].successfully_scraped =
          Len(car_links[j]) - Cardinality(raised[j])
    /\ job[j].result_file \in DOMAIN files =>
          files[job[j].result_file].cars = Extracted(j)

\* C3 as stated: with K links and extraction failing on any subset F, the
\* loop visits all K links, the job is completed, errors = |F|, the record
\* count is K - |F| and the records are in discovery order without F.
C3_PartialFailureCompletes ==
    \A j \in JobIds :
        AfterLoop(j) => PartialFailureTally(j) /\ CompletedWithTally(j)

\* C3 amended: when the configured delay is a number or K = 1, all K links
\* are visited, errors = |F|, the record count is K - |F|, the records are
\* in discovery order without F, and the job is completed with that tally
\* when the result file is written and failed when writing it raises; when
\* the delay is not a number and K >= 2, the first delay raises, the loop
\* stops after the first link and the job is failed.
C3_PartialFailureTally ==
    \A j \in JobIds :
        AfterLoop(j) =>
            IF SleepRaises(config[j].delay_between_requests)
               /\ Len(car_links[j]) >= 2
            THEN /\ visited[j] = SubSeq(car_links[j], 1, 1)
                 /\ job[j].status = "failed"
            ELSE /\ PartialFailureTally(j)
                 /\ \/ CompletedWithTally(j)
                    \/ /\ job[j].status = "failed"
                       /\ job[j].error_message = PersistError
                       /\ job[j].result_file = NoFile

\* C3: three links, the second raised, the job is completed with the first
\* and the third record.
C3_Witness ==
    \E j \in JobIds :
        /\ AfterLoop(j)
        /\ Len(car_links[j]) = 3
        /\ raised[j] = {car_links[j][2]}
        /\ job[j].status = "completed"
        /\ job[j].result_file \in DOMAIN files
        /\ files[job[j].result_file].cars = <<car_links[j][1], car_links[j][3]>>

\* C4 as stated: when acquiring the browser session raises before any link
\* is discovered, the job is failed, its error_message is a non-empty
\* string and its successfully_scraped is 0.
C4_AcquisitionFailureReported ==
    \A j \in JobIds :
        (pc[j] = "return" /\ browser[j] # "closed") =>
            /\ job[j].status = "failed"
            /\ job[j].error_message \notin {None, ""}
            /\ job[j].successfully_scraped = 0

\* C5 as stated: when an exception escapes scrape_website after listings
\* were extracted, the failed job's total_found, successfully_scraped and
\* errors equal the scraper's counters at the failure, and the accumulated
\* records are kept in a result the job points to.
C5_PartialResultsRetained ==
    \A j \in JobIds :
        (/\ pc[j] = "return"
         /\ exc[j] # None
         /\ Len(scraper[j].cars_data) > 0) =>
            /\ job[j].status = "failed"
            /\ job[j].total_found = scraper[j].total_found
            /\ job[j].successfully_scraped = scraper[j].successfully_scraped
            /\ job[j].errors = scraper[j].errors
            /\ job[j].result_file \in DOMAIN files
            /\ files[job[j].result_file].cars = scraper[j].cars_data

\* Link discovery is behind task j and gave it no link.
AfterNoLinks(j) ==
    /\ pc[j] = "return"
    /\ browser[j] = "closed"
    /\ NoLinks(car_links[j])

\* No listing page was visited and nothing was counted or recorded.
NothingScraped(j) ==
    /\ visited[j] = <<>>
    /\ slept[j] = NoSleep
    /\ scraper[j].successfully_scraped = 0
    /\ scraper[j].errors = 0
    /\ scraper[j].cars_data = <<>>
    /\ job[j].successfully_scraped = 0
    /\ job[j].errors = 0

\* The job is completed and its result, while it exists, has no record.
CompletedEmpty(j) ==
    /\ job[j].status = "completed"
    /\ job[j].result_file # NoFile
    /\ job[j].result_file \in DOMAIN files =>
          files[job[j].result_file].cars = <<>>

\* C6 as stated: a running job whose link discovery yields zero links
\* becomes completed, never failed, with successfully_scraped = 0,
\* errors = 0 and an empty record list, and no listing page is visited.
C6_NoLinksCompletes ==
    \A j \in JobIds : AfterNoLinks(j) => NothingScraped(j) /\ CompletedEmpty(j)

\* C6 amended: a running job whose link discovery yields zero links visits
\* no listing page and has successfully_scraped = 0, errors = 0 and no
\* record; it becomes completed with an empty record list when the result
\* file is written, and failed, with the error of the write as its message
\* and no result file, when writing the result file raises.  Discovery
\* itself (no selector matched, index navigation failed) never fails it.
C6_NoLinksNothingScraped ==
    \A j \in JobIds :
        AfterNoLinks(j) =>
            /\ NothingScraped(j)
            /\ exc[j] = None
            /\ \/ CompletedEmpty(j)
               \/ /\ job[j].status = "failed"
                  /\ job[j].error_message = PersistError
                  /\ job[j].result_file = NoFile

\* C6: the index navigation failed (total_found was never set), the job is
\* completed and its result file holds no record.
C6_Witness ==
    \E j \in JobIds :
        /\ AfterNoLinks(j)
        /\ job[j].status = "completed"
        /\ job[j].total_found = 0
        /\ job[j].result_file \in DOMAIN files
        /\ files[job[j].result_file].cars = <<>>

\* C7: for K >= 1 links and delay D, extraction of link i+1 starts only
\* after i delays have elapsed, a delay is pending only after a link that
\* is not the last (whether its extraction succeeded or raised), every
\* delay has length D, and once all K links are processed exactly K-1
\* delays were performed, summing to (K-1)*D.
C7_DelaysBetweenLinks ==
    \A j \in JobIds :
        LET K == Len(car_links[j])
            D == config[j].delay_between_requests
        IN  /\ slept[j].total = slept[j].calls * D
            /\ pc[j] = "extract" =>
                  /\ i[j] < K
                  /\ Len(visited[j]) = i[j]
                  /\ slept[j].calls = i[j]
            /\ pc[j] = "sleep" =>
                  /\ 1 <= i[j] /\ i[j] < K
                  /\ Len(visited[j]) = i[j]
                  /\ slept[j].calls = i[j] - 1
            /\ (pc[j] \in {"exit", "webhook", "return"} /\ K >= 1
                   /\ i[j] = K) =>
                  /\ slept[j].calls = K - 1
                  /\ slept[j].total = (K - 1) * D

\* C7: three links were processed with the default delay, one extraction
\* raised, and two delays were performed.
C7_Witness ==
    \E j \in JobIds :
        /\ pc[j] = "return"
        /\ Len(car_links[j]) = 3
        /\ i[j] = 3
        /\ raised[j] # {}
        /\ config[j].delay_between_requests = DefaultDelay
        /\ slept[j] = [calls |-> 2, total |-> 2 * DefaultDelay]

C9_ResultFilesIsolated ==
    \A j \in JobIds :
        job[j].status = "completed" =>
            /\ \A k \in JobIds \ {j} :
                  job[k].status = "completed" =>
                      job[k].result_file # job[j].result_file
            /\ job[j].result_file \in DOMAIN files =>
                  files[job[j].result_file].job_id = j

\* C10: a notification is dispatched only when the job's status is already
\* completed and a target was configured, at most once per job; the call,
\* returning or raising, leaves the job's status, counters and result_file
\* as they were, and so does every later step.
C10_WebhookAfterCompletionOnly ==
    [][\A j \in JobIds :
         /\ webhooks'[j] # webhooks[j] =>
               /\ job[j].status = "completed"
               /\ config[j].webhook_callback
               /\ webhooks[j] = <<>>
               /\ Len(webhooks'[j]) = 1
               /\ job'[j] = job[j]
         /\ job[j].status = "completed" => job'[j] = job[j]]_vars

\* C10: the task of a completed job is over; its one webhook call raised
\* and the job is still completed with its result file.
C10_Witness ==
    \E j \in JobIds :
        /\ pc[j] = "ended"
        /\ job[j].status = "completed"
        /\ job[j].result_file # NoFile
        /\ Len(webhooks[j]) = 1
        /\ ~webhooks[j][1].delivered

\* The call of get_universal_selectors has returned.
SelectorsMerged == ret.fn = "get_universal_selectors"

LinksReturned == ret.fn = "get_car_links"

\* C12 as stated: for every number N of discovered links and every integer
\* max_pages (0 and negative values included), get_car_links returns at
\* most max_pages links, namely the first min(N, max_pages) discovered
\* links in discovery order, and records total_found = N.
C12_TruncatedToMaxPages ==
    (LinksReturned /\ call.navOk) =>
        /\ Len(ret.links) <= Max(call.max_pages, 0)
        /\ ret.links = SubSeq(Discovered(call.n), 1,
                              Min(call.n, call.max_pages))
        /\ ret.total_found = call.n

\* C17 as stated: when the index-page navigation times out, link discovery
\* proceeds on the DOM that is present: the links of that DOM are returned
\* (up to max_pages) and counted in total_found.
C17_TimeoutNotFatal ==
    (LinksReturned /\ ~call.navOk) =>
        /\ ret.error = None
        /\ ret.total_found = call.n
        /\ ret.links = PySlice(Discovered(call.n), call.max_pages)

\* The amount of a currency match, in centavos.
Centavos(m) == m.reais * 100 + m.cents

\* The first of the matches whose amount is the largest.
FirstLargest(matches) ==
    LET top == CHOOSE k \in 1..Len(matches) :
                 /\ \A l \in 1..Len(matches) :
                       Centavos(matches[l]) <= Centavos(matches[k])
                 /\ \A l \in 1..(k - 1) :
                       Centavos(matches[l]) < Centavos(matches[k])
    IN  matches[top]

\* C13 as stated: when no price-selector element carries a currency marker,
\* getPrice returns the currency match of the page text whose amount is
\* numerically the largest, amounts with and without cents alike, and among
\* matches of equal amount the first one.
C13_LargestPriceKept ==
    (/\ ret.fn = "getPrice"
     /\ \A e \in 1..Len(call.marked) : ~call.marked[e]
     /\ Len(call.matches) > 0) =>
        /\ ret.source = "text"
        /\ ret.price = FirstLargest(call.matches)

\* The three counters of job j never decrease in a step.
CountersGrow(j) ==
    /\ job'[j].total_found >= job[j].total_found
    /\ job'[j].successfully_scraped >= job[j].successfully_scraped
    /\ job'[j].errors >= job[j].errors

\* The status query reports the job's counters and, as success rate, the
\* hundredth of a percent nearest to successfully_scraped /
\* max(total_found, 1).
StatsDerivable(j) ==
    LET q == get_job_status(j)
        d == Max(job[j].total_found, 1)
        off == q.success_rate * d - job[j].successfully_scraped * 10000
    IN  /\ q.total_found = job[j].total_found
        /\ q.successfully_scraped = job[j].successfully_scraped
        /\ q.errors = job[j].errors
        /\ 2 * off <= d
        /\ -2 * off <= d

\* C14: the counters of a job (total_found, successfully_scraped, errors)
\* never decrease; while the task of a completed job still holds its
\* scraper, the job's three counters equal the scraper's job_stats; and the
\* success rate of the status query is successfully_scraped /
\* max(total_found, 1) as a percentage (to two decimals).
C14_CountersAndDerivedStats ==
    /\ [][\A j \in JobIds : CountersGrow(j)]_vars
    /\ [](\A j \in JobIds :
            /\ (job[j].status = "completed"
                  /\ pc[j] \in {"webhook", "return"}) =>
                  /\ job[j].total_found = scraper[j].total_found
                  /\ job[j].successfully_scraped =
                        scraper[j].successfully_scraped
                  /\ job[j].errors = scraper[j].errors
            /\ j \in jobs_storage => StatsDerivable(j))

\* C14: a completed job with 3 links found, 2 scraped and 1 error, for
\* which the status query reports a success rate of 66.67 %.
C14_Witness ==
    \E j \in jobs_storage :
        /\ job[j].status = "completed"
        /\ pc[j] = "return"
        /\ job[j].total_found = 3
        /\ job[j].successfully_scraped = 2
        /\ job[j].errors = 1
        /\ get_job_status(j).success_rate = 6667

\* C15: in every state a status query or a download request can observe,
\* the job reports a result as available (result_file set) if and only if
\* its status is completed: a pending, running or failed job never has
\* download_available, and a completed job of the registry is never
\* refused by download_results as not completed or without results.
C15_AvailableIffCompleted ==
    \A j \in jobs_storage :
        /\ get_job_status(j).download_available <=>
              get_job_status(j).status = "completed"
        /\ job[j].result_file # NoFile <=> job[j].status = "completed"
        /\ job[j].status = "completed" => download_results(j).code # 400
        /\ job[j].status # "completed" => download_results(j).code = 400

\* C15: a completed job of the registry for which the status query reports
\* download_available and the download request returns the file.
C15_Witness ==
    \E j \in jobs_storage :
        /\ get_job_status(j).status = "completed"
        /\ get_job_status(j).download_available
        /\ download_results(j).code = 200

\* Task j acquired its browser session, and link discovery and every
\* extraction ran to the end of the link sequence.
PipelineRan(j) ==
    /\ pc[j] = "return"
    /\ browser[j] = "closed"
    /\ exc[j] = None
    /\ i[j] = Len(car_links[j])

\* C16 as stated: a job becomes failed only when the browser session could
\* not be acquired; whenever the session was acquired and discovery and
\* every extraction ran to the end of the link sequence, the job ends
\* completed, whatever the number of per-link errors and whatever happens
\* while the result artifact is built or persisted.
C16_FailedOnlyWithoutSession ==
    \A j \in JobIds :
        /\ job[j].status = "failed" => browser[j] # "closed"
        /\ PipelineRan(j) => job[j].status = "completed"

\* C16 amended: a job becomes failed only when the browser session could
\* not be acquired, when the delay between two listings raises (a delay
\* that is not a number), or when writing the result artifact raises;
\* whenever the session was acquired and discovery and every extraction ran
\* to the end of the link sequence, the job ends completed, whatever the
\* number of per-link errors, unless writing the result artifact raises,
\* in which case it ends failed with that error and no result file.
C16_FailedOnlyByEscapingError ==
    \A j \in JobIds :
        /\ (job[j].status = "failed" /\ pc[j] = "return") =>
              \/ browser[j] # "closed"
              \/ /\ exc[j] = SleepError
                 /\ config[j].delay_between_requests = BadDelay
                 /\ job[j].error_message = SleepError
              \/ /\ PipelineRan(j)
                 /\ job[j].error_message = PersistError
        /\ PipelineRan(j) =>
              \/ job[j].status = "completed"
              \/ /\ job[j].status = "failed"
                 /\ job[j].error_message = PersistError
                 /\ job[j].result_file = NoFile

\* C16: every extraction of a job with three links raised, and the job is
\* completed with three errors.
C16_Witness ==
    \E j \in JobIds :
        /\ PipelineRan(j)
        /\ Len(car_links[j]) = 3
        /\ Cardinality(raised[j]) = 3
        /\ job[j].status = "completed"
        /\ job[j].errors = 3

\* The absolute URL of the target of an anchor of the index page
\* https://<baseHost>/estoque, as a browser resolves its href.
AbsoluteUrl(h, baseHost) ==
    CASE h.kind = "absolute" -> HrefStr(h)
      [] h.kind = "protocol" -> <<"https:">> \o HrefStr(h)
      [] h.kind = "root" -> <<"https:", "//", baseHost>> \o HrefStr(h)
      [] h.kind = "document" ->
            <<"https:", "//", baseHost, "/">> \o HrefStr(h)

\* The path of the anchor's URL contains a listing keyword.
PathHasKeyword(h) ==
    \E k \in 1..Len(h.path), kw \in Keywords : Includes(h.path[k], kw)

\* The in-page script of get_car_links has returned.
LinksCollected == ret.fn = "CollectLinks"

\* C18 as stated: link discovery keeps a matched anchor target if and only
\* if the path of its URL contains a listing keyword; a link whose path
\* contains none is never returned, also a root-relative link on an index
\* page whose host name contains a keyword.
C18_KeptIffKeywordInPath ==
    LinksCollected =>
        \A k \in 1..Len(call.anchors) :
            (\E l \in 1..Len(ret.links) :
                ret.links[l] = ResolveHref(HrefStr(call.anchors[k]),
                                           call.baseHost))
            <=> PathHasKeyword(call.anchors[k])

\* C19 as stated: every URL returned by link discovery is the absolute URL
\* of a matched anchor's target (for absolute, root-relative,
\* protocol-relative and document-relative hrefs alike) and appears only
\* once: anchors resolving to the same absolute URL yield a single entry.
C19_AbsoluteAndDeduplicated ==
    LinksCollected =>
        LET kept == {k \in 1..Len(call.anchors) :
                        HasKeyword(ResolveHref(HrefStr(call.anchors[k]),
                                               call.baseHost))}
            targets == {AbsoluteUrl(call.anchors[k], call.baseHost) :
                            k \in kept}
        IN  /\ \A l \in 1..Len(ret.links) : ret.links[l][1] = "https:"
            /\ Range(ret.links) = targets
            /\ Len(ret.links) = Cardinality(targets)

\* C20 as stated: getOptionals falls back to the vocabulary scan if and
\* only if none of the features-section selectors matches an element (a
\* section with no child of text length in [3,49] still prevents the scan);
\* the returned list has no duplicates and at most 20 entries, and every
\* section-derived entry has between 3 and 49 characters.
C20_ScanOnlyWithoutSections ==
    ret.fn = "getOptionals" =>
        /\ ret.scanned <=>
              \A k \in 1..Len(call.sections) : ~call.sections[k].present
        /\ Cardinality(Range(ret.optionals)) = Len(ret.optionals)
        /\ Len(ret.optionals) <= MaxOptionals
        /\ ~ret.scanned =>
              \A k \in 1..Len(ret.optionals) :
                  ret.optionals[k].len \in 3..49

\* The word of the set S that occurs earliest in the text, if any.
EarliestOf(S, text) ==
    IF \E k \in 1..Len(text) : text[k] \in S
    THEN LET first == CHOOSE k \in 1..Len(text) :
                          /\ text[k] \in S
                          /\ \A l \in 1..(k - 1) : text[l] \notin S
         IN  text[first]
    ELSE NoSpec

\* C21 as stated: each field of the specs-from-text inference is inferred
\* from its own words only, and the first textual occurrence wins: a
\* keyword field gets the vocabulary word that occurs earliest in the text
\* ('diesel ... flex' gives diesel), a regex field the leftmost match.
C21_FirstOccurrenceWins ==
    ret.fn = "getSpecsFromIcons" =>
        /\ ret.specs.combustivel = EarliestOf(Range(Combustivel), call.text)
        /\ ret.specs.cambio = EarliestOf(Range(Cambio), call.text)
        /\ ret.specs.ano = EarliestOf(Anos, call.text)

\* Task j is in scrape_website after link discovery, or past it with its
\* scraper still at hand.
ScraperAtWork(j) == pc[j] \in {"extract", "sleep", "exit", "webhook", "return"}

\* C22: between two iterations of the extraction loop (and after it),
\* successfully_scraped is the number of records in cars_data,
\* successfully_scraped + errors is the number of links processed, which is
\* at most the number of links discovery returned, which is at most
\* total_found; at completion successfully_scraped + errors =
\* min(total_found, max_pages) for max_pages >= 0; the webhook's total_cars
\* equals its stats.successfully_scraped; the success rate is at most 100 %.
C22_CountersConsistent ==
    \A j \in JobIds :
        /\ ScraperAtWork(j) =>
              /\ scraper[j].successfully_scraped = Len(scraper[j].cars_data)
              /\ scraper[j].successfully_scraped + scraper[j].errors = i[j]
              /\ i[j] <= Len(car_links[j])
              /\ Len(car_links[j]) <= scraper[j].total_found
        /\ (/\ job[j].status = "completed"
            /\ pc[j] \in {"webhook", "return"}
            /\ config[j].max_pages >= 0) =>
              job[j].successfully_scraped + job[j].errors =
                  Min(job[j].total_found, config[j].max_pages)
        /\ \A k \in 1..Len(webhooks[j]) :
              webhooks[j][k].total_cars =
                  webhooks[j][k].stats.successfully_scraped
        /\ success_rate(job[j]) <= 10000
        /\ ScraperAtWork(j) =>
              success_rate([job[j] EXCEPT
                  !.total_found = scraper[j].total_found,
                  !.successfully_scraped =
                      scraper[j].successfully_scraped]) <= 10000

\* C22: between the second and the third of three links, one extraction
\* having succeeded and one having raised.
C22_Witness ==
    \E j \in JobIds :
        /\ pc[j] = "sleep"
        /\ Len(car_links[j]) = 3
        /\ scraper[j].total_found = 3
        /\ i[j] = 2
        /\ scraper[j].successfully_scraped = 1
        /\ Len(scraper[j].cars_data) = 1
        /\ scraper[j].errors = 1

====
